---- MODULE Spec2Model ----
(***************************************************************************)
(* Log-capture sessions of appium-mcp: start_log_broadcast,               *)
(* stop_log_broadcast, get_logs, clear_log_buffer and list_log_sessions,   *)
(* with the child processes they spawn and the callbacks those processes   *)
(* deliver.  Everything runs on one event loop: an action is one           *)
(* uninterrupted run of code between two awaits (or one callback).         *)
(***************************************************************************)
EXTENDS Integers, Sequences, FiniteSets, TLC

VARIABLES
    activeSessions, \* the Map sessionId -> LogSession
    procs,          \* every ChildProcess spawned so far, in spawn order
    buffers,        \* the logBuffer array created together with process p
    starts,         \* invocations of executeStartLogBroadcast suspended at an await
    ret,            \* what the latest step was and what it returned or threw
    fifo            \* SpecFifo's count of lines pushed and of clears (constant in Spec)

vars == <<activeSessions, procs, buffers, starts, ret, fifo>>

(***************************************************************************)
(* Bounds of the model and constants of the program.                       *)
(***************************************************************************)
\* processes spawned in one behaviour
MaxProcs == 2
\* The stdout handlers keep the last 10000 lines.  The handler is the same
\* code for any limit, and a run that fills 10000 lines is out of reach of
\* the model checker, so the specifications run it with a smaller limit:
\* SmallLimit in Spec, FifoLimit in SpecFifo.
SmallLimit == 2
FifoLimit == 40
\* lines SpecFifo's process writes beyond the limit
Overshoot == 50
\* clear_log_buffer calls in SpecFifo
MaxClears == 1
\* lines in one chunk of the backlog SpecFifo's process starts with
BurstLines == 8
\* largest maxLines argument given to get_logs
MaxArg == 2
\* longest device id SpecCmd starts a capture with
MaxIdLen == 27

\* "args.maxLines || 100"
DEFAULT_MAX_LINES == 100

SessionIds == {"s1", "s2"}
\* deviceId?: string -- a string is the sequence of its characters.  The
\* code only ever tests a deviceId for truthiness, which undefined and ""
\* fail alike, so one value stands for both.
NoDevice == <<>>
DeviceIds == { <<"e", "m", "u", "-", "1">> }
\* the platform and deviceId arguments start_log_broadcast is called with:
\* android without a deviceId (the lookup runs), ios with one
StartArgs ==
    { [platform |-> "android", deviceId |-> NoDevice],
      [platform |-> "ios", deviceId |-> <<"e", "m", "u", "-", "1">>] }
\* maxLines?: number -- absent, or a number
Omitted == -1

NL == "\n"
\* the data chunks capture process p writes to stdout: its lines carry the
\* number of the process, so that a line tells which process wrote it
Chunks(p) ==
    { <<ToString(p)>>,
      <<ToString(p), NL, " ", NL, ToString(p)>>,
      <<" ", NL, NL>> }

Min(a, b) == IF a < b THEN a ELSE b
Max(a, b) == IF a > b THEN a ELSE b

(***************************************************************************)
(* The stdout handler: data.toString().split('\n'), then for each line     *)
(* with line.trim() non-empty, push and shift once when over the limit.    *)
(***************************************************************************)
RECURSIVE split(_)
split(data) ==
    IF data = <<>> THEN << <<>> >>
    ELSE LET rest == split(Tail(data))
         IN  IF Head(data) = NL
               THEN << <<>> >> \o rest
               ELSE << <<Head(data)>> \o Head(rest) >> \o Tail(rest)

\* line.trim() is truthy: some character of the line is not whitespace
trimTruthy(line) == \E i \in 1..Len(line) : line[i] # " "

\* mutant: the shift is missing
pushLineNoShift(logBuffer, line, limit) == Append(logBuffer, line)

\* mutant: pop() in place of shift()
pushLinePopsNewest(logBuffer, line, limit) ==
    LET pushed == Append(logBuffer, line)
    IN  IF Len(pushed) > limit THEN SubSeq(pushed, 1, Len(pushed) - 1) ELSE pushed

\* logBuffer.push(line); if (logBuffer.length > limit) logBuffer.shift()
pushLine(logBuffer, line, limit) ==
    LET pushed == Append(logBuffer, line)
    IN  IF Len(pushed) > limit THEN Tail(pushed) ELSE pushed

RECURSIVE pushLines(_, _, _)
pushLines(logBuffer, lines, limit) ==
    IF lines = <<>> THEN logBuffer
    ELSE pushLines(IF trimTruthy(Head(lines))
                     THEN pushLine(logBuffer, Head(lines), limit)
                     ELSE logBuffer,
                   Tail(lines), limit)

onStdoutData(logBuffer, data, limit) == pushLines(logBuffer, split(data), limit)

(***************************************************************************)
(* Array.prototype.slice(start) and the maxLines default of get_logs.      *)
(***************************************************************************)
slice(arr, start) ==
    LET from == IF start < 0 THEN Max(Len(arr) + start, 0) ELSE Min(start, Len(arr))
    IN  SubSeq(arr, from + 1, Len(arr))

\* args.maxLines || 100 : undefined and 0 are both falsy
effectiveMaxLines(maxLinesArg) ==
    IF maxLinesArg = Omitted \/ maxLinesArg = 0 THEN DEFAULT_MAX_LINES ELSE maxLinesArg

(***************************************************************************)
(* State after the modules are loaded: an empty Map, nothing spawned.      *)
(***************************************************************************)
Init ==
    /\ activeSessions = [k \in {} |-> k]
    /\ procs = <<>>
    /\ buffers = <<>>
    /\ starts = <<>>
    /\ ret = [op |-> "none"]
    /\ fifo = [pushed |-> 0, clears |-> 0]

has(sessionId) == sessionId \in DOMAIN activeSessions

\* the array a registered session's logBuffer field refers to
bufferOf(sessionId) == buffers[activeSessions[sessionId].logBuffer]

removeAt(seq, i) == SubSeq(seq, 1, i - 1) \o SubSeq(seq, i + 1, Len(seq))

\* Map.prototype.delete
mapDelete(map, key) == [k \in DOMAIN map \ {key} |-> map[k]]

\* Map.prototype.set
mapSet(map, key, value) ==
    [k \in DOMAIN map \cup {key} |-> IF k = key THEN value ELSE map[k]]

(***************************************************************************)
(* start_log_broadcast.  The call runs to its first await: the duplicate   *)
(* guard, then either the axios lookup (no deviceId given) or the spawn    *)
(* and the settle timer.                                                   *)
(***************************************************************************)
\* invocations that have not spawned yet: each is still going to
awaitingLookup == {i \in 1..Len(starts) : starts[i].pc = "resolve"}

mayStillSpawn == Len(procs) + Cardinality(awaitingLookup) < MaxProcs

\* mutant: the flag is tested the wrong way round
alreadyStreamingInverted(sessionId) ==
    has(sessionId) /\ ~activeSessions[sessionId].isStreaming

\* mutant: any registered session counts, streaming or not
alreadyRegistered(sessionId) == has(sessionId)

\* if (activeSessions.has(sessionId)) { ... if (session.isStreaming) return
alreadyStreaming(sessionId) ==
    has(sessionId) /\ activeSessions[sessionId].isStreaming

\* String.prototype.includes, for a search string of one character
includes(str, ch) == \E i \in 1..Len(str) : str[i] = ch

\* startAndroidLogs: the command line handed to the shell
adbCmd(deviceId) ==
    IF deviceId # NoDevice
      THEN <<"adb", "-s", deviceId, "logcat", "-v", "time">>
      ELSE <<"adb", "logcat", "-v", "time">>

\* mutant: ids of exactly 25 characters count as simulators too
isSimulatorFrom25(deviceId) ==
    deviceId # NoDevice /\ (includes(deviceId, "-") \/ Len(deviceId) >= 25)

\* deviceId && (deviceId.includes('-') || deviceId.length > 25)
isSimulator(deviceId) ==
    deviceId # NoDevice /\ (includes(deviceId, "-") \/ Len(deviceId) > 25)

\* startIosLogs: the file and the arguments handed to spawn
iosCommand(deviceId) ==
    IF isSimulator(deviceId)
      THEN IF deviceId # NoDevice
             THEN <<"xcrun", "simctl", "spawn", deviceId,
                    "log", "stream", "--level", "debug">>
             ELSE <<"xcrun", "simctl", "spawn", "booted",
                    "log", "stream", "--level", "debug">>
      ELSE IF deviceId # NoDevice
             THEN <<"idevicesyslog", "-u", deviceId>>
             ELSE <<"idevicesyslog">>

\* if (platform === 'android') startAndroidLogs(...) else startIosLogs(...)
spawnedCommand(platform, deviceId) ==
    IF platform = "android" THEN adbCmd(deviceId) ELSE iosCommand(deviceId)

\* deps.spawn(...) with the stdout, error and close handlers attached, and
\* the invocation parked on the settle timer
spawnAndWait(sessionId, platform, deviceId, others) ==
    /\ procs' = Append(procs, [sessionId |-> sessionId,
                               state     |-> "running",
                               exitCode  |-> "null",
                               killed    |-> FALSE])
    /\ buffers' = Append(buffers, <<>>)
    /\ starts' = Append(others, [sessionId  |-> sessionId,
                                 platform   |-> platform,
                                 deviceId   |-> deviceId,
                                 pc         |-> "settle",
                                 command    |-> spawnedCommand(platform, deviceId),
                                 logProcess |-> Len(procs) + 1])

executeStartLogBroadcast(sessionId, platform, providedDeviceId) ==
    IF alreadyStreaming(sessionId)
      THEN /\ ret' = [op |-> "start", sessionId |-> sessionId, kind |-> "already",
                      providedDeviceId |-> providedDeviceId,
                      deviceId |-> activeSessions[sessionId].deviceId]
           /\ UNCHANGED <<activeSessions, procs, buffers, starts>>
      ELSE /\ mayStillSpawn
           /\ ret' = [op |-> "start", sessionId |-> sessionId, kind |-> "suspended",
                      providedDeviceId |-> providedDeviceId]
           /\ UNCHANGED activeSessions
           /\ IF providedDeviceId = NoDevice
                THEN /\ starts' = Append(starts, [sessionId  |-> sessionId,
                                                  platform   |-> platform,
                                                  deviceId   |-> NoDevice,
                                                  pc         |-> "resolve",
                                                  command    |-> <<>>,
                                                  logProcess |-> 0])
                     /\ UNCHANGED <<procs, buffers>>
                ELSE spawnAndWait(sessionId, platform, providedDeviceId, starts)

\* How the axios.get promise settles: it rejects; the body has no
\* value.capabilities['appium:udid'] (it is not an object, a level of the
\* path is missing); the field holds a string; the field holds a number.
LookupOutcomes == {"rejected", "noField", "string", "number"}

\* deviceId = sessionResponse.data?.value?.capabilities?.['appium:udid'],
\* left undefined by the catch.  A number is written by its digits, which
\* is all the template literals of the android launcher do with it.
resolvedDeviceId(outcome, udid) ==
    IF outcome \in {"string", "number"} THEN udid ELSE NoDevice

\* startIosLogs evaluates deviceId.includes('-') on a truthy deviceId: a
\* number has no such method and the call throws a TypeError
includesThrows(platform, outcome, udid) ==
    platform = "ios" /\ outcome = "number" /\ udid # NoDevice

\* the axios.get promise settles; then the launcher runs to its await
lookupSettled(i, outcome, udid) ==
    /\ i \in awaitingLookup
    /\ UNCHANGED activeSessions
    /\ IF includesThrows(starts[i].platform, outcome, udid)
         THEN /\ starts' = removeAt(starts, i)
              /\ ret' = [op |-> "lookup", sessionId |-> starts[i].sessionId,
                         outcome |-> outcome, kind |-> "error",
                         message |-> "TypeError"]
              /\ UNCHANGED <<procs, buffers>>
         ELSE /\ spawnAndWait(starts[i].sessionId, starts[i].platform,
                              resolvedDeviceId(outcome, udid), removeAt(starts, i))
              /\ ret' = [op |-> "lookup", sessionId |-> starts[i].sessionId,
                         outcome |-> outcome, kind |-> "suspended"]

startupFailure(platform, deviceId) ==
    IF platform = "android" THEN "Failed to start adb logcat"
    ELSE "Failed to start iOS logs"

\* if (logProcess.exitCode !== null) throw
hasExitCode(p) == procs[p].exitCode # "null"

\* the 1000 ms timer fires: the exit-code check, then activeSessions.set
settleElapsed(i) ==
    /\ i \in 1..Len(starts)
    /\ starts[i].pc = "settle"
    /\ starts' = removeAt(starts, i)
    /\ UNCHANGED <<procs, buffers>>
    /\ IF hasExitCode(starts[i].logProcess)
         THEN /\ ret' = [op |-> "settle", sessionId |-> starts[i].sessionId,
                         logProcess |-> starts[i].logProcess, kind |-> "error",
                         message |-> startupFailure(starts[i].platform, starts[i].deviceId)]
              /\ UNCHANGED activeSessions
         ELSE /\ ret' = [op |-> "settle", sessionId |-> starts[i].sessionId,
                         logProcess |-> starts[i].logProcess, kind |-> "started",
                         deviceId |-> starts[i].deviceId]
              /\ activeSessions' =
                     mapSet(activeSessions, starts[i].sessionId,
                            [platform    |-> starts[i].platform,
                             deviceId    |-> starts[i].deviceId,
                             logProcess  |-> starts[i].logProcess,
                             logBuffer   |-> starts[i].logProcess,
                             isStreaming |-> TRUE])

(***************************************************************************)
(* stop_log_broadcast.  killThrows: whether logProcess.kill('SIGTERM')     *)
(* throws (the try/catch around it is there for that case).                *)
(***************************************************************************)
\* ChildProcess.kill: the signal goes out only while the child runs
kill(p) ==
    [procs EXCEPT ![p].killed = procs[p].killed \/ procs[p].state = "running"]

\* mutant: the catch block does not delete the session
executeStopKeepsOnKillFailure(sessionId, killThrows) ==
    IF ~has(sessionId)
      THEN /\ ret' = [op |-> "stop", sessionId |-> sessionId, kind |-> "notfound"]
           /\ UNCHANGED <<activeSessions, procs, buffers, starts>>
      ELSE LET session == activeSessions[sessionId]
               logCount == Len(buffers[session.logBuffer])
           IN  /\ UNCHANGED <<buffers, starts>>
               /\ IF session.logProcess # 0 /\ killThrows
                    THEN /\ ret' = [op |-> "stop", sessionId |-> sessionId,
                                    kind |-> "error",
                                    message |-> "Error stopping log streaming"]
                         /\ UNCHANGED <<procs, activeSessions>>
                    ELSE /\ ret' = [op |-> "stop", sessionId |-> sessionId,
                                    kind |-> "stopped",
                                    deviceId |-> session.deviceId,
                                    logCount |-> logCount]
                         /\ activeSessions' = mapDelete(activeSessions, sessionId)
                         /\ procs' = IF session.logProcess # 0
                                       THEN kill(session.logProcess)
                                       ELSE procs

\* mutant: a stop of an unknown id signals the processes spawned for it
executeStopSignalsUnregistered(sessionId, killThrows) ==
    IF ~has(sessionId)
      THEN /\ ret' = [op |-> "stop", sessionId |-> sessionId, kind |-> "notfound"]
           /\ procs' = [p \in 1..Len(procs) |->
                          IF procs[p].sessionId = sessionId
                            THEN [procs[p] EXCEPT !.killed = TRUE]
                            ELSE procs[p]]
           /\ UNCHANGED <<activeSessions, buffers, starts>>
      ELSE LET session == activeSessions[sessionId]
               logCount == Len(buffers[session.logBuffer])
           IN  /\ activeSessions' = mapDelete(activeSessions, sessionId)
               /\ UNCHANGED <<buffers, starts>>
               /\ IF session.logProcess # 0 /\ killThrows
                    THEN /\ ret' = [op |-> "stop", sessionId |-> sessionId,
                                    kind |-> "error",
                                    message |-> "Error stopping log streaming"]
                         /\ UNCHANGED procs
                    ELSE /\ ret' = [op |-> "stop", sessionId |-> sessionId,
                                    kind |-> "stopped",
                                    deviceId |-> session.deviceId,
                                    logCount |-> logCount]
                         /\ procs' = IF session.logProcess # 0
                                       THEN kill(session.logProcess)
                                       ELSE procs

executeStopLogBroadcast(sessionId, killThrows) ==
    IF ~has(sessionId)
      THEN /\ ret' = [op |-> "stop", sessionId |-> sessionId, kind |-> "notfound"]
           /\ UNCHANGED <<activeSessions, procs, buffers, starts>>
      ELSE LET session == activeSessions[sessionId]
               logCount == Len(buffers[session.logBuffer])
           IN  /\ activeSessions' = mapDelete(activeSessions, sessionId)
               /\ UNCHANGED <<buffers, starts>>
               /\ IF session.logProcess # 0 /\ killThrows
                    THEN /\ ret' = [op |-> "stop", sessionId |-> sessionId,
                                    kind |-> "error",
                                    message |-> "Error stopping log streaming"]
                         /\ UNCHANGED procs
                    ELSE /\ ret' = [op |-> "stop", sessionId |-> sessionId,
                                    kind |-> "stopped",
                                    deviceId |-> session.deviceId,
                                    logCount |-> logCount]
                         /\ procs' = IF session.logProcess # 0
                                       THEN kill(session.logProcess)
                                       ELSE procs

(***************************************************************************)
(* get_logs, clear_log_buffer, list_log_sessions.                          *)
(***************************************************************************)
\* mutant: an unknown session is thrown, not reported
executeGetLogsThrowsNotFound(sessionId, maxLinesArg) ==
    /\ UNCHANGED <<activeSessions, procs, buffers, starts>>
    /\ IF ~has(sessionId)
         THEN ret' = [op |-> "get", sessionId |-> sessionId, kind |-> "error"]
         ELSE LET session == activeSessions[sessionId]
                  maxLines == effectiveMaxLines(maxLinesArg)
                  logs == slice(buffers[session.logBuffer], 0 - maxLines)
                  totalCount == Len(buffers[session.logBuffer])
              IN  ret' = [op |-> "get", sessionId |-> sessionId, kind |-> "ok",
                          maxLinesArg |-> maxLinesArg,
                          status |-> IF session.isStreaming THEN "Streaming" ELSE "Stopped",
                          total |-> totalCount,
                          shown |-> Len(logs),
                          lines |-> logs,
                          truncated |-> totalCount > maxLines]

executeGetLogs(sessionId, maxLinesArg) ==
    /\ UNCHANGED <<activeSessions, procs, buffers, starts>>
    /\ IF ~has(sessionId)
         THEN ret' = [op |-> "get", sessionId |-> sessionId, kind |-> "notfound"]
         ELSE LET session == activeSessions[sessionId]
                  maxLines == effectiveMaxLines(maxLinesArg)
                  logs == slice(buffers[session.logBuffer], 0 - maxLines)
                  totalCount == Len(buffers[session.logBuffer])
              IN  ret' = [op |-> "get", sessionId |-> sessionId, kind |-> "ok",
                          maxLinesArg |-> maxLinesArg,
                          status |-> IF session.isStreaming THEN "Streaming" ELSE "Stopped",
                          total |-> totalCount,
                          shown |-> Len(logs),
                          lines |-> logs,
                          truncated |-> totalCount > maxLines]

\* mutant: the count is taken after the buffer is emptied
executeClearCountsAfter(sessionId) ==
    /\ UNCHANGED <<activeSessions, procs, starts>>
    /\ IF ~has(sessionId)
         THEN /\ ret' = [op |-> "clear", sessionId |-> sessionId, kind |-> "notfound"]
              /\ UNCHANGED buffers
         ELSE LET session == activeSessions[sessionId]
              IN  /\ buffers' = [buffers EXCEPT ![session.logBuffer] = <<>>]
                  /\ ret' = [op |-> "clear", sessionId |-> sessionId,
                             kind |-> "cleared",
                             clearedCount |-> Len(buffers'[session.logBuffer])]

executeClearLogBuffer(sessionId) ==
    /\ UNCHANGED <<activeSessions, procs, starts>>
    /\ IF ~has(sessionId)
         THEN /\ ret' = [op |-> "clear", sessionId |-> sessionId, kind |-> "notfound"]
              /\ UNCHANGED buffers
         ELSE LET session == activeSessions[sessionId]
                  clearedCount == Len(buffers[session.logBuffer])
              IN  /\ buffers' = [buffers EXCEPT ![session.logBuffer] = <<>>]
                  /\ ret' = [op |-> "clear", sessionId |-> sessionId,
                             kind |-> "cleared", clearedCount |-> clearedCount]

executeListLogSessions ==
    /\ UNCHANGED <<activeSessions, procs, buffers, starts>>
    /\ ret' = [op |-> "list",
               kind |-> IF DOMAIN activeSessions = {} THEN "empty" ELSE "ok",
               sessions |-> [id \in DOMAIN activeSessions |->
                               [platform |-> activeSessions[id].platform,
                                deviceId |-> activeSessions[id].deviceId,
                                status   |-> IF activeSessions[id].isStreaming
                                               THEN "Streaming" ELSE "Stopped",
                                buffered |-> Len(bufferOf(id))]]]

(***************************************************************************)
(* The capture processes.  A child ends with an exit code (exitCode set),  *)
(* by a signal (exitCode stays null, signalCode is set) or by failing to   *)
(* spawn ('error' is emitted, exitCode set to the errno); 'close' follows  *)
(* once its stdio has closed.                                              *)
(***************************************************************************)
callback == [op |-> "callback"]

\* mutant: the handler appends to the buffer of whatever session its id
\* is registered with, as the 'close' handler looks its session up
stdoutDataBySessionId(p, data, limit) ==
    /\ p \in 1..Len(procs)
    /\ procs[p].state \in {"running", "exited"}
    /\ LET b == IF has(procs[p].sessionId)
                  THEN activeSessions[procs[p].sessionId].logBuffer ELSE p
       IN  buffers' = [buffers EXCEPT ![b] = onStdoutData(buffers[b], data, limit)]
    /\ ret' = [op |-> "callback"]
    /\ UNCHANGED <<activeSessions, procs, starts>>

\* logProcess.stdout.on('data', ...)
stdoutData(p, data, limit) ==
    /\ p \in 1..Len(procs)
    /\ procs[p].state \in {"running", "exited"}
    /\ buffers' = [buffers EXCEPT ![p] = onStdoutData(buffers[p], data, limit)]
    /\ ret' = callback
    /\ UNCHANGED <<activeSessions, procs, starts>>

\* mutant: the handler drops the session from the registry
onProcessEndDeletes(sessionId) == mapDelete(activeSessions, sessionId)

\* const session = activeSessions.get(sessionId);
\* if (session) session.isStreaming = false
onProcessEnd(sessionId) ==
    IF has(sessionId)
      THEN [activeSessions EXCEPT ![sessionId].isStreaming = FALSE]
      ELSE activeSessions

\* the child ends; no handler of this program listens to 'exit'
processExit(p, how) ==
    /\ p \in 1..Len(procs)
    /\ procs[p].state = "running"
    /\ procs' = [procs EXCEPT ![p].state = "exited",
                              ![p].exitCode = IF how = "code" THEN "1" ELSE "null"]
    /\ ret' = callback
    /\ UNCHANGED <<activeSessions, buffers, starts>>

\* logProcess.on('error', ...): the spawn failed
processError(p) ==
    /\ p \in 1..Len(procs)
    /\ procs[p].state = "running"
    /\ buffers[p] = <<>>
    /\ procs' = [procs EXCEPT ![p].state = "errored", ![p].exitCode = "ENOENT"]
    /\ activeSessions' = onProcessEnd(procs[p].sessionId)
    /\ ret' = callback
    /\ UNCHANGED <<buffers, starts>>

\* logProcess.on('close', ...)
processClose(p) ==
    /\ p \in 1..Len(procs)
    /\ procs[p].state \in {"exited", "errored"}
    /\ procs' = [procs EXCEPT ![p].state = "closed"]
    /\ activeSessions' = onProcessEnd(procs[p].sessionId)
    /\ ret' = callback
    /\ UNCHANGED <<buffers, starts>>

(***************************************************************************)
(* The interleaving specification.                                         *)
(***************************************************************************)
Start ==
    /\ \E id \in SessionIds, args \in StartArgs :
           executeStartLogBroadcast(id, args.platform, args.deviceId)
    /\ UNCHANGED fifo
Lookup ==
    /\ \E i \in 1..Len(starts), outcome \in {"rejected", "string"}, udid \in DeviceIds :
           lookupSettled(i, outcome, udid)
    /\ UNCHANGED fifo
Settle ==
    /\ \E i \in 1..Len(starts) : settleElapsed(i)
    /\ UNCHANGED fifo
Stop ==
    /\ \E id \in SessionIds, killThrows \in BOOLEAN :
           executeStopLogBroadcast(id, killThrows)
    /\ UNCHANGED fifo
Get ==
    /\ \E id \in SessionIds, n \in (0..MaxArg) \cup {Omitted} : executeGetLogs(id, n)
    /\ UNCHANGED fifo
Clear ==
    /\ \E id \in SessionIds : executeClearLogBuffer(id)
    /\ UNCHANGED fifo
List ==
    /\ executeListLogSessions
    /\ UNCHANGED fifo
Data ==
    /\ \E p \in 1..Len(procs) : \E data \in Chunks(p) : stdoutData(p, data, SmallLimit)
    /\ UNCHANGED fifo
Exit ==
    /\ \E p \in 1..Len(procs), how \in {"code", "signal"} : processExit(p, how)
    /\ UNCHANGED fifo
Error ==
    /\ \E p \in 1..Len(procs) : processError(p)
    /\ UNCHANGED fifo
Close ==
    /\ \E p \in 1..Len(procs) : processClose(p)
    /\ UNCHANGED fifo

Next ==
    \/ Start
    \/ Lookup
    \/ Settle
    \/ Stop
    \/ Get
    \/ Clear
    \/ List
    \/ Data
    \/ Exit
    \/ Error
    \/ Close

Spec == Init /\ [][Next]_vars

(***************************************************************************)
(* The buffer of one session: it is started, its process writes numbered   *)
(* lines, one per chunk or BurstLines per chunk, and the buffer is cleared *)
(* at most MaxClears times; the numbering restarts with the buffer.        *)
(***************************************************************************)
\* the k-th line of SpecFifo's process since the buffer was created or cleared
fifoLine(k) == <<ToString(k)>>

\* one chunk holding lines from+1 .. from+n, each ended by a newline
fifoChunk(from, n) ==
    [i \in 1..(2 * n) |-> IF i % 2 = 1 THEN ToString(from + (i + 1) \div 2) ELSE NL]

FifoStart ==
    /\ procs = <<>>
    /\ executeStartLogBroadcast("s1", "ios", <<"e", "m", "u", "-", "1">>)
    /\ UNCHANGED fifo
FifoSettle ==
    /\ settleElapsed(1)
    /\ UNCHANGED fifo
FifoData ==
    /\ fifo.pushed < FifoLimit + Overshoot
    /\ stdoutData(1, fifoChunk(fifo.pushed, 1), FifoLimit)
    /\ fifo' = [fifo EXCEPT !.pushed = fifo.pushed + 1]
FifoBurst ==
    /\ fifo.pushed % BurstLines = 0
    /\ fifo.pushed + BurstLines <= FifoLimit + Overshoot
    /\ stdoutData(1, fifoChunk(fifo.pushed, BurstLines), FifoLimit)
    /\ fifo' = [fifo EXCEPT !.pushed = fifo.pushed + BurstLines]
FifoClear ==
    /\ fifo.clears < MaxClears
    /\ has("s1")
    /\ executeClearLogBuffer("s1")
    /\ fifo' = [pushed |-> 0, clears |-> fifo.clears + 1]

NextFifo ==
    \/ FifoStart
    \/ FifoSettle
    \/ FifoData
    \/ FifoBurst
    \/ FifoClear

SpecFifo == Init /\ [][NextFifo]_vars

(***************************************************************************)
(* One start at a time, over many device ids: the start is called for      *)
(* either platform with a device id of up to MaxIdLen characters, with and *)
(* without a hyphen, or with none, and the lookup settles in every way.    *)
(***************************************************************************)
\* the id of n characters whose h-th character is a hyphen (h = 0: none)
idOf(n, h) == SubSeq([i \in 1..MaxIdLen |-> IF i = h THEN "-" ELSE "a"], 1, n)

CmdDeviceIds == {idOf(n, h) : n \in 0..MaxIdLen, h \in 0..MaxIdLen}

CmdStart ==
    /\ starts = <<>>
    /\ procs = <<>>
    /\ \E platform \in {"android", "ios"}, deviceId \in CmdDeviceIds :
           executeStartLogBroadcast("s1", platform, deviceId)
    /\ UNCHANGED fifo
CmdLookup ==
    /\ \E outcome \in LookupOutcomes, udid \in CmdDeviceIds :
           lookupSettled(1, outcome, udid)
    /\ UNCHANGED fifo
CmdSettle ==
    /\ settleElapsed(1)
    /\ UNCHANGED fifo

NextCmd ==
    \/ CmdStart
    \/ CmdLookup
    \/ CmdSettle

SpecCmd == Init /\ [][NextCmd]_vars

(***************************************************************************)
(* One session id under fair delivery of 'close': Node emits 'close' for   *)
(* every child that has ended, once its stdio streams have closed.         *)
(***************************************************************************)
LiveStart ==
    /\ \E args \in StartArgs : executeStartLogBroadcast("s1", args.platform, args.deviceId)
    /\ UNCHANGED fifo
LiveStop ==
    /\ executeStopLogBroadcast("s1", FALSE)
    /\ UNCHANGED fifo
LiveGet ==
    /\ has("s1")
    /\ executeGetLogs("s1", Omitted)
    /\ UNCHANGED fifo
LiveData ==
    /\ \E p \in 1..Len(procs) : stdoutData(p, <<ToString(p)>>, SmallLimit)
    /\ UNCHANGED fifo
LiveClose(p) ==
    /\ processClose(p)
    /\ UNCHANGED fifo
LiveCloses == \E p \in 1..MaxProcs : LiveClose(p)

NextLive ==
    \/ LiveStart
    \/ Lookup
    \/ Settle
    \/ LiveStop
    \/ LiveGet
    \/ List
    \/ LiveData
    \/ Exit
    \/ Error
    \/ LiveCloses

SpecLive ==
    /\ Init
    /\ [][NextLive]_vars
    /\ \A p \in 1..MaxProcs : WF_vars(LiveClose(p))

(***************************************************************************)
(* Claims.                                                                 *)
(***************************************************************************)
procIds == 1..Len(procs)

\* a capture process that is alive and has not been sent a signal
aliveUnsignalled(p) == procs[p].state = "running" /\ ~procs[p].killed

\* the 'error' or the 'close' callback of process p has run
reported(p) == procs[p].state \in {"errored", "closed"}

\* C1: at no time are two capture processes spawned for the same session id
\* both alive and un-signalled (the registry, a Map, holds at most one
\* session per id by construction).
C1_OneLiveProcessPerId ==
    \A p, q \in procIds :
        (p # q /\ procs[p].sessionId = procs[q].sessionId)
            => ~(aliveUnsignalled(p) /\ aliveUnsignalled(q))

\* C2: a start for an id whose registered session is streaming returns the
\* description of that session (its id and device), spawns nothing, issues
\* no lookup and leaves the registry, the processes and the buffers as
\* they are.
C2_DuplicateStartGuard ==
    [][\A id \in SessionIds :
          (/\ has(id)
           /\ activeSessions[id].isStreaming
           /\ ret'.op = "start"
           /\ ret'.sessionId = id)
          => /\ ret'.kind = "already"
             /\ ret'.deviceId = activeSessions[id].deviceId
             /\ UNCHANGED <<activeSessions, procs, buffers, starts>>]_vars

C2_Witness ==
    /\ ret.op = "start"
    /\ ret.kind = "already"
    /\ has(ret.sessionId)
    /\ activeSessions[ret.sessionId].isStreaming
    /\ Len(buffers[activeSessions[ret.sessionId].logBuffer]) > 0

\* C3: a registered session with isStreaming = true has a process handle,
\* and that process has reported neither exit nor error.
C3_StreamingImpliesLiveProcess ==
    \A id \in DOMAIN activeSessions :
        activeSessions[id].isStreaming
            => /\ activeSessions[id].logProcess # 0
               /\ ~reported(activeSessions[id].logProcess)

\* C4: when the process a start spawned has terminated by the time the
\* settle delay is over, the start fails with the startup failure of its
\* platform and the registry is left as it was.
C4_EarlyExitFailsStart ==
    [][(/\ ret'.op = "settle"
        /\ procs[ret'.logProcess].state # "running")
       => /\ ret'.kind = "error"
          /\ activeSessions' = activeSessions]_vars

\* C5: no buffer, of a registered session or of a start still in its
\* settle window, is ever longer than the limit its stdout handler keeps.
C5_BufferWithinCapacity ==
    \A p \in procIds : Len(buffers[p]) <= SmallLimit

C5_Witness ==
    /\ \E i \in 1..Len(starts) :
           /\ starts[i].pc = "settle"
           /\ Len(buffers[starts[i].logProcess]) = SmallLimit
    /\ \E id \in DOMAIN activeSessions : Len(bufferOf(id)) = SmallLimit

\* C6: after k lines pushed one at a time since the buffer was created or
\* last cleared, the buffer holds exactly the last min(k, limit) of them,
\* oldest first.
C6_FifoEviction ==
    procs # <<>> =>
        LET k == fifo.pushed
            size == Min(k, FifoLimit)
        IN  /\ Len(buffers[1]) = size
            /\ \A i \in 1..size : buffers[1][i] = fifoLine(k - size + i)

C6_Witness ==
    /\ fifo.pushed = FifoLimit + Overshoot
    /\ fifo.clears = 1
    /\ buffers[1][1] = fifoLine(51)
    /\ buffers[1][FifoLimit] = fifoLine(FifoLimit + Overshoot)

\* C7: a stop of a registered session leaves its id out of the registry,
\* also when the kill throws; the count a normal result reports is the
\* buffer's length before the removal; every other session, and every
\* buffer, is as before.
C7_StopRemovesSession ==
    [][\A id \in SessionIds :
          (/\ has(id)
           /\ ret'.op = "stop"
           /\ ret'.sessionId = id)
          => /\ DOMAIN activeSessions' = DOMAIN activeSessions \ {id}
             /\ ret'.kind \in {"stopped", "error"}
             /\ ret'.kind = "stopped" => ret'.logCount = Len(bufferOf(id))
             /\ \A other \in DOMAIN activeSessions \ {id} :
                    activeSessions'[other] = activeSessions[other]
             /\ buffers' = buffers]_vars

C7_Witness ==
    /\ ret.op = "stop"
    /\ ret.kind = "stopped"
    /\ ret.logCount > 0
    /\ ~has(ret.sessionId)
    /\ DOMAIN activeSessions # {}

lastLines(buf, n) == SubSeq(buf, Len(buf) - Min(n, Len(buf)) + 1, Len(buf))

\* C9: get(id, n) on a registered session returns the last min(n, size)
\* lines in order for every n >= 0 (100 when n is omitted), with total =
\* size, shown = the number of lines returned and the truncation note
\* exactly when fewer than all lines are returned, and changes nothing.
C9_GetReturnsTail ==
    [][\A id \in SessionIds :
          (/\ has(id)
           /\ ret'.op = "get"
           /\ ret'.sessionId = id)
          => LET n == IF ret'.maxLinesArg = Omitted
                        THEN DEFAULT_MAX_LINES ELSE ret'.maxLinesArg
             IN  /\ ret'.kind = "ok"
                 /\ ret'.lines = lastLines(bufferOf(id), n)
                 /\ ret'.total = Len(bufferOf(id))
                 /\ ret'.shown = Len(ret'.lines)
                 /\ ret'.truncated <=> (ret'.shown < ret'.total)
                 /\ UNCHANGED <<activeSessions, procs, buffers, starts>>]_vars

\* C10: a clear of a registered session empties its buffer and returns the
\* number of lines it held; the session (streaming flag, process, buffer
\* reference), the registry, the processes and every other buffer are as
\* before, the session's buffer is still the one its process appends to,
\* and a get that follows at once reports total = 0.
C10_ClearEmptiesBufferOnly ==
    [][/\ \A id \in SessionIds :
             (/\ has(id)
              /\ ret'.op = "clear"
              /\ ret'.sessionId = id)
             => /\ ret'.kind = "cleared"
                /\ ret'.clearedCount = Len(bufferOf(id))
                /\ activeSessions' = activeSessions
                /\ activeSessions'[id].logBuffer = activeSessions'[id].logProcess
                /\ buffers'[activeSessions[id].logBuffer] = <<>>
                /\ \A q \in procIds \ {activeSessions[id].logBuffer} :
                       buffers'[q] = buffers[q]
                /\ UNCHANGED <<procs, starts>>
       /\ (/\ ret.op = "clear"
           /\ ret.kind = "cleared"
           /\ ret'.op = "get"
           /\ ret'.sessionId = ret.sessionId)
          => /\ ret'.kind = "ok"
             /\ ret'.total = 0]_vars

C10_Witness ==
    /\ ret.op = "clear"
    /\ ret.kind = "cleared"
    /\ ret.clearedCount = SmallLimit
    /\ activeSessions[ret.sessionId].isStreaming
    /\ procs[activeSessions[ret.sessionId].logProcess].state = "running"
    /\ Cardinality(DOMAIN activeSessions) = 2

\* C11: a stop, a get or a clear of an id that is not in the registry
\* returns the not-found result, raises nothing, signals no process and
\* leaves the registry, every session's flag, every buffer, every process
\* and every start in flight as they are.
C11_NotFoundChangesNothing ==
    [][\A id \in SessionIds :
          (/\ id \notin DOMAIN activeSessions
           /\ ret'.op \in {"stop", "get", "clear"}
           /\ ret'.sessionId = id)
          => /\ ret'.kind = "notfound"
             /\ UNCHANGED <<activeSessions, procs, buffers, starts>>]_vars

C11_Witness ==
    /\ ret.op = "stop"
    /\ ret.kind = "notfound"
    /\ \E p \in procIds : procs[p].sessionId = ret.sessionId /\ aliveUnsignalled(p)
    /\ \E id \in DOMAIN activeSessions :
           activeSessions[id].isStreaming /\ Len(bufferOf(id)) > 0

\* C12: a registered session leaves the registry, and its process is sent
\* a signal, only in a stop of its id: after any other step the id still
\* maps to the session of the same process, and that process has been
\* signalled no more than before.
C12_OnlyStopDestroys ==
    [][\A id \in DOMAIN activeSessions :
          LET p == activeSessions[id].logProcess
          IN  \/ ret'.op = "stop" /\ ret'.sessionId = id
              \/ /\ id \in DOMAIN activeSessions'
                 /\ activeSessions'[id].logProcess = p
                 /\ procs'[p].killed = procs[p].killed]_vars

\* C13: when the 'error' or 'close' callback of the process a registered
\* session owns runs, the session stays in the registry, the same but for
\* isStreaming = false, and every buffer is as before; get and list report
\* a session as stopped exactly when its flag is false; and once the
\* process of a registered session has ended, the id is eventually absent
\* (a stop) or not streaming.
C13_EndedProcessMarksSessionStopped ==
    /\ [][/\ \A id \in DOMAIN activeSessions :
               LET p == activeSessions[id].logProcess
               IN  (/\ procs'[p].state \in {"errored", "closed"}
                    /\ procs'[p].state # procs[p].state)
                   => /\ id \in DOMAIN activeSessions'
                      /\ activeSessions'[id] =
                             [activeSessions[id] EXCEPT !.isStreaming = FALSE]
                      /\ buffers' = buffers
          /\ (ret'.op = "get" /\ ret'.kind = "ok")
               => (ret'.status = "Stopped"
                     <=> ~activeSessions[ret'.sessionId].isStreaming)
          /\ ret'.op = "list"
               => \A id \in DOMAIN activeSessions :
                      ret'.sessions[id].status = "Stopped"
                          <=> ~activeSessions[id].isStreaming]_vars
    /\ \A id \in SessionIds, p \in 1..MaxProcs :
           (/\ has(id)
            /\ activeSessions[id].logProcess = p
            /\ procs[p].state \in {"exited", "errored"})
           ~> (~has(id) \/ ~activeSessions[id].isStreaming)

C13_Witness ==
    /\ has("s1")
    /\ ~activeSessions["s1"].isStreaming
    /\ procs[activeSessions["s1"].logProcess].state = "closed"
    /\ procs[activeSessions["s1"].logProcess].exitCode = "1"
    /\ Len(bufferOf("s1")) > 0
    /\ ret.op = "get"
    /\ ret.status = "Stopped"

\* C16: a registered session whose isStreaming is false owns a process
\* that has itself reported its end (its 'error' or 'close' callback ran).
C16_CallbackFlipsOwnSessionOnly ==
    \A id \in DOMAIN activeSessions :
        ~activeSessions[id].isStreaming => reported(activeSessions[id].logProcess)

\* C17: every spawned process that is alive and has not been signalled is
\* the process of a registered session or of a start that has not
\* completed yet.
C17_NoOrphanProcess ==
    \A p \in procIds :
        aliveUnsignalled(p)
            => \/ \E id \in DOMAIN activeSessions : activeSessions[id].logProcess = p
               \/ \E i \in 1..Len(starts) :
                      starts[i].pc = "settle" /\ starts[i].logProcess = p

\* C18: every buffer holds only lines written by the process it was
\* created with, and the buffer of a registered session is the one created
\* with the session's own process: no line of another process, stopped,
\* replaced or of another session, is in a session's buffer.
C18_BufferHoldsOwnLinesOnly ==
    /\ \A p \in procIds :
           \A k \in 1..Len(buffers[p]) : buffers[p][k] = <<ToString(p)>>
    /\ \A id \in DOMAIN activeSessions :
           /\ activeSessions[id].logBuffer = activeSessions[id].logProcess
           /\ procs[activeSessions[id].logProcess].sessionId = id

C18_Witness ==
    /\ has("s1")
    /\ activeSessions["s1"].logProcess = 2
    /\ procs[1].sessionId = "s1"
    /\ procs[1].killed
    /\ Len(buffers[1]) = SmallLimit
    /\ Len(buffers[2]) = 1
    /\ ret = callback
    /\ procs[1].state = "exited"

\* C19: a start of an id whose registered session is not streaming goes
\* ahead (it suspends at its lookup or, spawned, at its settle delay) and
\* touches neither the registry nor any process or buffer there is.  When
\* a start of a registered id succeeds, the id maps to a streaming session
\* of the process and of the buffer that start created, both other than
\* the previous session's, so that get(id) reads the new buffer; no process
\* is signalled and no other session changes.  When it fails, the registry
\* and the processes are as before.
C19_RestartReplacesSession ==
    [][\A id \in DOMAIN activeSessions :
          LET old == activeSessions[id]
          IN  /\ (/\ ~old.isStreaming
                  /\ ret'.op = "start"
                  /\ ret'.sessionId = id)
                 => /\ ret'.kind = "suspended"
                    /\ activeSessions' = activeSessions
                    /\ Len(starts') = Len(starts) + 1
                    /\ ret'.providedDeviceId # NoDevice
                           => /\ Len(procs') = Len(procs) + 1
                              /\ procs'[Len(procs')].state = "running"
                              /\ buffers'[Len(procs')] = <<>>
                    /\ \A p \in procIds : procs'[p] = procs[p] /\ buffers'[p] = buffers[p]
              /\ (/\ ret'.op = "settle"
                  /\ ret'.sessionId = id
                  /\ ret'.kind = "started")
                 => /\ activeSessions'[id].isStreaming
                    /\ activeSessions'[id].logProcess = ret'.logProcess
                    /\ activeSessions'[id].logBuffer = ret'.logProcess
                    /\ old.logProcess # ret'.logProcess
                    /\ old.logBuffer # activeSessions'[id].logBuffer
                    /\ procs' = procs
                    /\ buffers' = buffers
                    /\ \A other \in DOMAIN activeSessions \ {id} :
                           activeSessions'[other] = activeSessions[other]
              /\ (/\ ret'.op = "settle"
                  /\ ret'.sessionId = id
                  /\ ret'.kind = "error")
                 => /\ activeSessions' = activeSessions
                    /\ procs' = procs
                    /\ buffers' = buffers
              /\ (/\ ret.op = "settle"
                  /\ ret.kind = "started"
                  /\ ret.sessionId = id
                  /\ ret'.op = "get"
                  /\ ret'.sessionId = id)
                 => ret'.total = Len(buffers[ret.logProcess])]_vars

C19_Witness ==
    /\ ret.op = "start"
    /\ ret.kind = "suspended"
    /\ ret.sessionId = "s1"
    /\ has("s1")
    /\ ~activeSessions["s1"].isStreaming
    /\ activeSessions["s1"].logProcess = 1
    /\ Len(bufferOf("s1")) > 0
    /\ procs[1].state = "closed"
    /\ Len(procs) = 2
    /\ procs[2].sessionId = "s1"
    /\ procs[2].state = "running"

\* C20: once stop(id) has returned, stopped or not found, the id is not
\* in the registry after the next step, whatever that step is: only a
\* start invoked after the stop could register it, and no start registers
\* within the step that invokes it.
C20_StoppedIdStaysAbsent ==
    [][(ret.op = "stop" /\ ret.kind \in {"stopped", "notfound"})
          => ret.sessionId \notin DOMAIN activeSessions']_vars

\* the invocation of start that spawned last, parked on its settle timer
lastStart == starts[Len(starts)]

\* C14: device resolution never aborts a start.  A start without a deviceId
\* issues one lookup and spawns nothing before it settles; however the
\* lookup settles, the start goes on to spawn one process and issues no
\* further lookup, and after a rejection or a body without the field the
\* process is launched with no device id.  A start with a deviceId issues
\* no lookup and launches with that id.
C14_LookupNeverAbortsStart ==
    [][/\ (ret'.op = "start" /\ ret'.kind = "suspended")
          => IF ret'.providedDeviceId = NoDevice
               THEN /\ Cardinality(awaitingLookup') = Cardinality(awaitingLookup) + 1
                    /\ procs' = procs
               ELSE /\ awaitingLookup' = awaitingLookup
                    /\ Len(procs') = Len(procs) + 1
                    /\ lastStart'.deviceId = ret'.providedDeviceId
                    /\ lastStart'.command =
                           spawnedCommand(lastStart'.platform, ret'.providedDeviceId)
       /\ ret'.op = "lookup"
          => /\ ret'.kind = "suspended"
             /\ Len(procs') = Len(procs) + 1
             /\ Cardinality(awaitingLookup') = Cardinality(awaitingLookup) - 1
             /\ ret'.outcome \in {"rejected", "noField"}
                    => /\ lastStart'.deviceId = NoDevice
                       /\ lastStart'.command \in {<<"adb", "logcat", "-v", "time">>,
                                                  <<"idevicesyslog">>}]_vars

\* C15: the command of every launch.  ios: xcrun simctl spawn <deviceId>
\* log stream --level debug exactly when the deviceId is present and has a
\* hyphen or more than 25 characters, idevicesyslog otherwise, with
\* -u <deviceId> exactly when the deviceId is present.  android: adb logcat
\* -v time, with -s <deviceId> exactly when the deviceId is present.
C15_CommandSelection ==
    \A i \in 1..Len(starts) :
        starts[i].pc = "settle" =>
            LET d == starts[i].deviceId
                present == d # <<>>
                hyphen == \E k \in 1..Len(d) : d[k] = "-"
            IN  starts[i].command =
                    IF starts[i].platform = "ios"
                      THEN IF present /\ (hyphen \/ Len(d) > 25)
                             THEN <<"xcrun", "simctl", "spawn", d,
                                    "log", "stream", "--level", "debug">>
                             ELSE <<"idevicesyslog">> \o
                                  (IF present THEN <<"-u", d>> ELSE <<>>)
                      ELSE <<"adb">> \o (IF present THEN <<"-s", d>> ELSE <<>>) \o
                           <<"logcat", "-v", "time">>

C15_Witness ==
    /\ starts # <<>>
    /\ lastStart.pc = "settle"
    /\ lastStart.platform = "ios"
    /\ Len(lastStart.deviceId) = 26
    /\ \A k \in 1..26 : lastStart.deviceId[k] # "-"
    /\ lastStart.command[1] = "xcrun"
    /\ ret.op = "lookup"

====
